---------------------------- MODULE Spec2Model ----------------------------
(***************************************************************************)
(* Model of migration_prep.py: the file-selection rules (keep-patterns,    *)
(* keep-dotfiles, skip-dirs, skip-patterns, per-directory gitignore), the  *)
(* recursive traversal MigrationPrep.backup_directory with its statistics, *)
(* and the exit status of main.                                            *)
(*                                                                         *)
(* A string is a sequence of one-character strings, so that glob matching, *)
(* prefix tests and stripping are computed character by character.  A      *)
(* path is a sequence of names relative to the source root.                *)
(***************************************************************************)
EXTENDS Integers, Sequences, FiniteSets, TLC

(***************************************************************************)
(* Bounds of the model.                                                    *)
(***************************************************************************)
\* number of nested directories below the root in the deep chain tree
ChainDepth == 12
\* size in bytes of every regular file of the modelled trees
FileSize == 2
\* number of I/O failures the file system may produce during one run
MaxFaults == 1

(***************************************************************************)
(* Characters, in ASCII order (used for ranges in character classes).      *)
(***************************************************************************)
Chars ==
  <<"\t", "\n", " ", "!", "#", "$", "%", "&", "(", ")", "*", "+", ",", "-", ".", "/",
    "0", "1", "2", "3", "4", "5", "6", "7", "8", "9", ":", ";", "<", "=", ">", "?",
    "@", "A", "B", "C", "D", "E", "F", "G", "H", "I", "J", "K", "L", "M", "N", "O",
    "P", "Q", "R", "S", "T", "U", "V", "W", "X", "Y", "Z", "[", "]", "^", "_",
    "a", "b", "c", "d", "e", "f", "g", "h", "i", "j", "k", "l", "m", "n", "o", "p",
    "q", "r", "s", "t", "u", "v", "w", "x", "y", "z", "{", "|", "}", "~">>

Ord(c) == CHOOSE i \in 1..Len(Chars) : Chars[i] = c

\* the whitespace characters of Chars
Whitespace == {" ", "\t", "\n"}

\* str.startswith
StartsWith(s, prefix) ==
  /\ Len(prefix) <= Len(s)
  /\ SubSeq(s, 1, Len(prefix)) = prefix

\* str.strip (leading and trailing whitespace removed)
RECURSIVE LStrip(_)
LStrip(s) ==
  IF s # <<>> /\ Head(s) \in Whitespace THEN LStrip(Tail(s)) ELSE s

RECURSIVE RStrip(_)
RStrip(s) ==
  IF s # <<>> /\ s[Len(s)] \in Whitespace
  THEN RStrip(SubSeq(s, 1, Len(s) - 1))
  ELSE s

Strip(s) == RStrip(LStrip(s))

(***************************************************************************)
(* fnmatch.fnmatch on POSIX (os.path.normcase is the identity): "*"        *)
(* matches any run of characters ("/" included), "?" one character,        *)
(* "[...]" a character class with "!" negation and "a-z" ranges; a "["     *)
(* without closing "]" is a literal.  The whole name must match.           *)
(***************************************************************************)
\* index of the "]" closing the class opened at pat[1] = "[", 0 if none
RECURSIVE ScanClassEnd(_, _)
ScanClassEnd(pat, j) ==
  IF j > Len(pat) THEN 0
  ELSE IF pat[j] = "]" THEN j
  ELSE ScanClassEnd(pat, j + 1)

ClassEnd(pat) ==
  LET j1 == IF Len(pat) >= 2 /\ pat[2] = "!" THEN 3 ELSE 2
      j2 == IF j1 <= Len(pat) /\ pat[j1] = "]" THEN j1 + 1 ELSE j1
  IN  ScanClassEnd(pat, j2)

\* membership of ch in the class body (negation mark already removed)
RECURSIVE InClassBody(_, _, _)
InClassBody(ch, body, k) ==
  IF k > Len(body) THEN FALSE
  ELSE IF k + 2 <= Len(body) /\ body[k + 1] = "-"
       THEN \/ (Ord(body[k]) <= Ord(ch) /\ Ord(ch) <= Ord(body[k + 2]))
            \/ InClassBody(ch, body, k + 3)
       ELSE ch = body[k] \/ InClassBody(ch, body, k + 1)

InClass(ch, stuff) ==
  IF Head(stuff) = "!"
  THEN ~InClassBody(ch, Tail(stuff), 1)
  ELSE InClassBody(ch, stuff, 1)

RECURSIVE fnmatch(_, _)
fnmatch(name, pat) ==
  IF pat = <<>> THEN name = <<>>
  ELSE
    LET c == Head(pat)
        rest == Tail(pat)
    IN  IF c = "*"
        THEN \/ fnmatch(name, rest)
             \/ (name # <<>> /\ fnmatch(Tail(name), pat))
        ELSE IF c = "?"
        THEN name # <<>> /\ fnmatch(Tail(name), rest)
        ELSE IF c = "[" /\ ClassEnd(pat) # 0
        THEN LET j == ClassEnd(pat)
             IN  /\ name # <<>>
                 /\ InClass(Head(name), SubSeq(pat, 2, j - 1))
                 /\ fnmatch(Tail(name), SubSeq(pat, j + 1, Len(pat)))
        ELSE name # <<>> /\ Head(name) = c /\ fnmatch(Tail(name), rest)

(***************************************************************************)
(* The four static rule collections of MigrationPrep.__init__.             *)
(***************************************************************************)
skip_dirs ==
  { <<"_","_","p","y","c","a","c","h","e","_","_">>,
    <<".","p","y","t","e","s","t","_","c","a","c","h","e">>,
    <<".","m","y","p","y","_","c","a","c","h","e">>,
    <<".","t","o","x">>,
    <<"n","o","d","e","_","m","o","d","u","l","e","s">>,
    <<".","n","p","m">>,
    <<".","y","a","r","n">>,
    <<"d","i","s","t">>,
    <<"b","u","i","l","d">>,
    <<"t","a","r","g","e","t">>,
    <<".","v","e","n","v">>,
    <<"v","e","n","v">>,
    <<"e","n","v">>,
    <<".","e","n","v">>,
    <<"v","i","r","t","u","a","l","e","n","v">>,
    <<".","g","i","t">>,
    <<".","s","v","n">>,
    <<".","h","g">>,
    <<".","b","z","r">>,
    <<".","R","p","r","o","j",".","u","s","e","r">>,
    <<".","r","o","p","e","p","r","o","j","e","c","t">>,
    <<"c","m","a","k","e","-","b","u","i","l","d","-","d","e","b","u","g">>,
    <<"c","m","a","k","e","-","b","u","i","l","d","-","r","e","l","e","a","s","e">>,
    <<".","g","r","a","d","l","e">>,
    <<".","m","2">>,
    <<".","i","v","y","2">>,
    <<".","c","a","r","g","o","/","r","e","g","i","s","t","r","y">>,
    <<".","c","a","r","g","o","/","g","i","t">>,
    <<"z","i","g","-","c","a","c","h","e">>,
    <<"z","i","g","-","o","u","t">>,
    <<".","s","t","a","c","k","-","w","o","r","k">>,
    <<"_","b","u","i","l","d">>,
    <<"d","e","p","s">>,
    <<"_","d","e","p","s">>,
    <<".","e","l","i","x","i","r","_","l","s">>,
    <<".","m","i","x">>,
    <<"c","o","v","e","r","a","g","e">>,
    <<".","c","o","v","e","r","a","g","e">>,
    <<".","n","y","c","_","o","u","t","p","u","t">>,
    <<"l","o","g","s">>,
    <<"*",".","l","o","g">>,
    <<"t","m","p">>,
    <<"t","e","m","p">>,
    <<".","t","m","p">>,
    <<".","t","e","m","p">> }

skip_patterns ==
  { <<"*",".","p","y","c">>,
    <<"*",".","p","y","o">>,
    <<"*",".","p","y","d">>,
    <<"*",".","s","o">>,
    <<"*",".","d","l","l">>,
    <<"*",".","d","y","l","i","b">>,
    <<"*",".","o">>,
    <<"*",".","o","b","j">>,
    <<"*",".","c","l","a","s","s">>,
    <<"*",".","j","a","r">>,
    <<"*",".","w","a","r">>,
    <<"*",".","b","e","a","m">>,
    <<"*",".","p","l","t">>,
    <<"*",".","e","x","e">>,
    <<"*",".","a","p","p">>,
    <<"*",".","d","m","g">>,
    <<"*",".","p","k","g">>,
    <<"*",".","d","e","b">>,
    <<"*",".","r","p","m">>,
    <<"*",".","z","i","p">>,
    <<"*",".","t","a","r",".","g","z">>,
    <<"*",".","t","a","r",".","b","z","2">>,
    <<"*",".","7","z">>,
    <<"*",".","r","a","r">>,
    <<"*",".","s","w","p">>,
    <<"*",".","s","w","o">>,
    <<"*","~">>,
    <<".","D","S","_","S","t","o","r","e">>,
    <<"T","h","u","m","b","s",".","d","b">>,
    <<"*",".","t","m","p">>,
    <<"*",".","t","e","m","p">>,
    <<"*",".","c","a","c","h","e">>,
    <<"*",".","l","o","g">>,
    <<"c","o","r","e">>,
    <<"c","o","r","e",".","*">>,
    <<"*",".","c","o","r","e">>,
    <<"*",".","l","o","c","k">>,
    <<"p","a","c","k","a","g","e","-","l","o","c","k",".","j","s","o","n">>,
    <<"y","a","r","n",".","l","o","c","k">>,
    <<"p","n","p","m","-","l","o","c","k",".","y","a","m","l">>,
    <<"*",".","m","i","n",".","j","s">>,
    <<"*",".","m","i","n",".","c","s","s">>,
    <<"*",".","m","a","p">>,
    <<"*",".","m","i","n",".","j","s",".","m","a","p">>,
    <<"*",".","m","i","n",".","c","s","s",".","m","a","p">> }

keep_patterns ==
  { <<".","*","r","c">>,
    <<".","*","p","r","o","f","i","l","e">>,
    <<".","*","_","p","r","o","f","i","l","e">>,
    <<".","*","_","h","i","s","t","o","r","y">>,
    <<".","e","n","v","*">>,
    <<".","e","n","v","i","r","o","n","m","e","n","t">>,
    <<"e","n","v","i","r","o","n","m","e","n","t",".","*">>,
    <<"*",".","c","o","n","f">>,
    <<"*",".","c","o","n","f","i","g">>,
    <<"c","o","n","f","i","g",".","*">>,
    <<"c","o","n","f","i","g","u","r","a","t","i","o","n",".","*">>,
    <<".","g","i","t","c","o","n","f","i","g">>,
    <<".","g","i","t","i","g","n","o","r","e","_","g","l","o","b","a","l">>,
    <<".","s","s","h","/","c","o","n","f","i","g">>,
    <<"r","e","q","u","i","r","e","m","e","n","t","s",".","t","x","t">>,
    <<"P","i","p","f","i","l","e">>,
    <<"p","y","p","r","o","j","e","c","t",".","t","o","m","l">>,
    <<"p","a","c","k","a","g","e",".","j","s","o","n">>,
    <<"C","a","r","g","o",".","t","o","m","l">>,
    <<"m","i","x",".","e","x","s">>,
    <<"b","u","i","l","d",".","z","i","g">>,
    <<"M","a","k","e","f","i","l","e">>,
    <<"C","M","a","k","e","L","i","s","t","s",".","t","x","t">>,
    <<"D","o","c","k","e","r","f","i","l","e","*">>,
    <<"f","l","a","k","e",".","n","i","x">>,
    <<"s","h","e","l","l",".","n","i","x">>,
    <<"d","e","f","a","u","l","t",".","n","i","x">>,
    <<"*",".","m","d">>,
    <<"*",".","r","s","t">>,
    <<"*",".","t","x","t">>,
    <<"L","I","C","E","N","S","E","*">>,
    <<"R","E","A","D","M","E","*">>,
    <<"t","s","c","o","n","f","i","g",".","j","s","o","n">>,
    <<"w","e","b","p","a","c","k",".","c","o","n","f","i","g",".","j","s">>,
    <<"v","i","t","e",".","c","o","n","f","i","g",".","*">> }

keep_dotfiles ==
  { <<".","s","s","h">>,
    <<".","g","n","u","p","g">>,
    <<".","g","i","t","c","o","n","f","i","g">>,
    <<".","v","i","m","r","c">>,
    <<".","n","v","i","m">>,
    <<".","b","a","s","h","r","c">>,
    <<".","z","s","h","r","c">>,
    <<".","p","r","o","f","i","l","e">>,
    <<".","b","a","s","h","_","p","r","o","f","i","l","e">>,
    <<".","t","m","u","x",".","c","o","n","f">>,
    <<".","s","c","r","e","e","n","r","c">>,
    <<".","i","n","p","u","t","r","c">>,
    <<".","c","o","n","f","i","g">>,
    <<".","l","o","c","a","l","/","s","h","a","r","e">>,
    <<".","m","o","z","i","l","l","a">>,
    <<".","t","h","u","n","d","e","r","b","i","r","d">>,
    <<".","a","w","s">>,
    <<".","d","o","c","k","e","r">>,
    <<".","k","u","b","e">>,
    <<".","t","e","r","r","a","f","o","r","m",".","d">>,
    <<".","c","a","r","g","o","/","c","o","n","f","i","g",".","t","o","m","l">>,
    <<".","r","u","s","t","u","p","/","s","e","t","t","i","n","g","s",".","t","o","m","l">>,
    <<".","n","p","m","r","c">>,
    <<".","y","a","r","n","r","c">>,
    <<".","p","i","p">>,
    <<".","p","o","e","t","r","y">>,
    <<".","m","i","x">>,
    <<".","h","e","x">>,
    <<".","i","e","x",".","e","x","s">>,
    <<".","e","m","a","c","s",".","d">>,
    <<".","d","o","o","m",".","d">>,
    <<".","s","p","a","c","e","m","a","c","s",".","d">> }

(***************************************************************************)
(* Paths.                                                                  *)
(***************************************************************************)
\* Path.name
PathName(path) == path[Len(path)]

\* Path.parent
PathParent(path) == SubSeq(path, 1, Len(path) - 1)

\* str(path.relative_to(self.source_dir)): the names joined by "/"
RECURSIVE relative_path(_)
relative_path(path) ==
  IF Len(path) = 1 THEN path[1]
  ELSE relative_path(PathParent(path)) \o <<"/">> \o PathName(path)

(***************************************************************************)
(* Classifier.                                                             *)
(***************************************************************************)
\* variant: the gitignore patterns are consulted before the keep-patterns
should_skip_file_gitignore_first(file_path, gitignore_patterns) ==
  LET filename == PathName(file_path)
      rel == relative_path(file_path)
  IN  IF \E pattern \in gitignore_patterns :
           fnmatch(rel, pattern) \/ fnmatch(filename, pattern)
      THEN TRUE
      ELSE IF \E pattern \in keep_patterns : fnmatch(filename, pattern)
      THEN FALSE
      ELSE IF \E pattern \in skip_patterns : fnmatch(filename, pattern)
      THEN TRUE
      ELSE FALSE

\* variant: the keep-patterns are not consulted
should_skip_file_no_keep(file_path, gitignore_patterns) ==
  LET filename == PathName(file_path)
      rel == relative_path(file_path)
  IN  IF \E pattern \in gitignore_patterns :
           fnmatch(rel, pattern) \/ fnmatch(filename, pattern)
      THEN TRUE
      ELSE IF \E pattern \in skip_patterns : fnmatch(filename, pattern)
      THEN TRUE
      ELSE FALSE

\* variant: the skip-patterns are consulted before the keep-patterns
should_skip_file_skip_first(file_path, gitignore_patterns) ==
  LET filename == PathName(file_path)
      rel == relative_path(file_path)
  IN  IF \E pattern \in skip_patterns : fnmatch(filename, pattern)
      THEN TRUE
      ELSE IF \E pattern \in keep_patterns : fnmatch(filename, pattern)
      THEN FALSE
      ELSE IF \E pattern \in gitignore_patterns :
                fnmatch(rel, pattern) \/ fnmatch(filename, pattern)
      THEN TRUE
      ELSE FALSE

should_skip_file(file_path, gitignore_patterns) ==
  LET filename == PathName(file_path)
      rel == relative_path(file_path)
  IN  IF \E pattern \in keep_patterns : fnmatch(filename, pattern)
      THEN FALSE
      ELSE IF \E pattern \in gitignore_patterns :
                fnmatch(rel, pattern) \/ fnmatch(filename, pattern)
      THEN TRUE
      ELSE IF \E pattern \in skip_patterns : fnmatch(filename, pattern)
      THEN TRUE
      ELSE FALSE

\* variant: membership in skip_dirs is not tested
should_skip_directory_no_skip_dirs(dir_path) ==
  LET dirname == PathName(dir_path)
      rel == relative_path(dir_path)
  IN  IF \E keep_pattern \in keep_dotfiles :
            StartsWith(rel, keep_pattern) \/ dirname = keep_pattern
      THEN FALSE
      ELSE IF \E pattern \in skip_patterns : fnmatch(dirname, pattern)
      THEN TRUE
      ELSE FALSE

\* variant: skip_dirs and skip_patterns are tested before keep_dotfiles
should_skip_directory_skip_first(dir_path) ==
  LET dirname == PathName(dir_path)
      rel == relative_path(dir_path)
  IN  IF dirname \in skip_dirs
      THEN TRUE
      ELSE IF \E pattern \in skip_patterns : fnmatch(dirname, pattern)
      THEN TRUE
      ELSE FALSE

should_skip_directory(dir_path) ==
  LET dirname == PathName(dir_path)
      rel == relative_path(dir_path)
  IN  IF \E keep_pattern \in keep_dotfiles :
            StartsWith(rel, keep_pattern) \/ dirname = keep_pattern
      THEN FALSE
      ELSE IF dirname \in skip_dirs
      THEN TRUE
      ELSE IF \E pattern \in skip_patterns : fnmatch(dirname, pattern)
      THEN TRUE
      ELSE FALSE

(***************************************************************************)
(* Source trees.  An entry is a record: its path relative to the source    *)
(* root, its kind ("file", "dir" or "link"), what it resolves to (for a    *)
(* symbolic link: "file", "dir", or "none" when dangling), its size and,   *)
(* for a .gitignore, its lines as the file iterator yields them.           *)
(***************************************************************************)
File(path) ==
  [path |-> path, kind |-> "file", target |-> "file", size |-> FileSize, lines |-> <<>>]

Dir(path) ==
  [path |-> path, kind |-> "dir", target |-> "dir", size |-> 0, lines |-> <<>>]

Link(path, target) ==
  [path |-> path, kind |-> "link", target |-> target,
   size |-> IF target = "file" THEN FileSize ELSE 0, lines |-> <<>>]

Gitignore(directory, lines) ==
  [path |-> directory \o << <<".","g","i","t","i","g","n","o","r","e">> >>, kind |-> "file", target |-> "file",
   size |-> FileSize, lines |-> lines]

\* a keep-pattern file that also matches skip and gitignore patterns
TreeKeep ==
  { Gitignore(<<>>, << <<"c","o","n","f","i","g",".","*","\n">>, <<"d","o","c","s","/","*","\n">> >>),
    File(<< <<"c","o","n","f","i","g",".","l","o","g">> >>),
    File(<< <<"a","p","p",".","l","o","g">> >>),
    Dir(<< <<"d","o","c","s">> >>),
    Gitignore(<< <<"d","o","c","s">> >>, << <<"d","o","c","s","/","R","E","A","D","M","E",".","t","m","p","\n">> >>),
    File(<< <<"d","o","c","s">>, <<"R","E","A","D","M","E",".","t","m","p">> >>),
    File(<< <<"d","o","c","s">>, <<"d","r","a","f","t",".","t","m","p">> >>) }

\* skip-dirs at the root and nested, and a directory matching a skip-pattern
TreePrune ==
  { Dir(<< <<"n","o","d","e","_","m","o","d","u","l","e","s">> >>),
    Gitignore(<< <<"n","o","d","e","_","m","o","d","u","l","e","s">> >>, << <<"*",".","j","s","\n">> >>),
    File(<< <<"n","o","d","e","_","m","o","d","u","l","e","s">>, <<"R","E","A","D","M","E",".","m","d">> >>),
    Dir(<< <<"s","r","c">> >>),
    File(<< <<"s","r","c">>, <<"m","a","i","n",".","p","y">> >>),
    Dir(<< <<"s","r","c">>, <<"b","u","i","l","d">> >>),
    File(<< <<"s","r","c">>, <<"b","u","i","l","d">>, <<"M","a","k","e","f","i","l","e">> >>),
    Dir(<< <<"o","l","d",".","t","m","p">> >>),
    File(<< <<"o","l","d",".","t","m","p">>, <<"n","o","t","e","s",".","t","x","t">> >>) }

\* keep-dotfile directories whose names are skip-dirs or match skip-patterns
TreeDot ==
  { Dir(<< <<".","m","i","x">> >>),
    File(<< <<".","m","i","x">>, <<"m","i","x",".","e","x","s">> >>),
    Dir(<< <<".","s","s","h">> >>),
    Dir(<< <<".","s","s","h">>, <<"b","u","i","l","d">> >>),
    File(<< <<".","s","s","h">>, <<"b","u","i","l","d">>, <<"i","d","_","r","s","a">> >>),
    Dir(<< <<".","s","s","h">>, <<"c","o","r","e">> >>),
    File(<< <<".","s","s","h">>, <<"c","o","r","e">>, <<"k","n","o","w","n","_","h","o","s","t","s">> >>),
    Dir(<< <<".","g","i","t">> >>),
    File(<< <<".","g","i","t">>, <<"H","E","A","D">> >>) }

\* the root .gitignore names secrets.txt and secrets.key
TreeGit ==
  { Gitignore(<<>>, << <<"#"," ","l","o","c","a","l"," ","s","e","c","r","e","t","s","\n">>, <<"\n">>, <<"s","e","c","r","e","t","s",".","t","x","t","\n">>, <<" "," ","s","e","c","r","e","t","s",".","k","e","y"," ","\n">> >>),
    File(<< <<"s","e","c","r","e","t","s",".","t","x","t">> >>),
    File(<< <<"s","e","c","r","e","t","s",".","k","e","y">> >>),
    Dir(<< <<"s","u","b">> >>),
    File(<< <<"s","u","b">>, <<"s","e","c","r","e","t","s",".","t","x","t">> >>),
    File(<< <<"s","u","b">>, <<"s","e","c","r","e","t","s",".","k","e","y">> >>) }

\* a/.gitignore has patterns matching files of the sibling b/ and the child a/c/
TreeScope ==
  { Dir(<< <<"a">> >>),
    Gitignore(<< <<"a">> >>, << <<"*",".","[","c","d","]","a","t","\n">>, <<"b","/","x",".","b","i","n">> >>),
    File(<< <<"a">>, <<"x",".","d","a","t">> >>),
    Dir(<< <<"a">>, <<"c">> >>),
    File(<< <<"a">>, <<"c">>, <<"x",".","d","a","t">> >>),
    Dir(<< <<"b">> >>),
    File(<< <<"b">>, <<"x",".","d","a","t">> >>),
    File(<< <<"b">>, <<"x",".","b","i","n">> >>) }

\* symbolic links to a kept file, a skipped file, a directory, and a dangling one
TreeLinks ==
  { Link(<< <<"s","e","t","t","i","n","g","s",".","c","o","n","f">> >>, "file"),
    Link(<< <<"o","l","d",".","o">> >>, "file"),
    Link(<< <<"l","i","n","k","e","d">> >>, "dir"),
    Link(<< <<"d","a","n","g","l","i","n","g">> >>, "none"),
    Link(<< <<".","g","i","t","i","g","n","o","r","e">> >>, "dir") }

\* a chain d/d/.../d of ChainDepth nested directories, a README in the deepest four
ChainPath(n) == [i \in 1..n |-> <<"d">>]

TreeChain ==
  { Dir(ChainPath(n)) : n \in 1..ChainDepth }
  \cup { File(ChainPath(n) \o << <<"R","E","A","D","M","E">> >>) : n \in (ChainDepth - 3)..ChainDepth }

Trees == { TreeKeep, TreePrune, TreeDot, TreeGit, TreeScope, TreeLinks, TreeChain }

(***************************************************************************)
(* State.                                                                  *)
(***************************************************************************)
VARIABLES
  fs,             \* the source tree (a set of entries); the run never changes it
  dry_run,        \* args.dry_run
  source_exists,  \* self.source_dir.exists()
  pc,             \* position of main: "start", "running" (inside run_backup), "done"
  exit_status,    \* value returned by main, -1 while it has not returned
  raised,         \* exception that ended run_backup, "none" if none
  stack,          \* call stack of backup_directory, innermost call last
  stats,          \* self.stats
  dest,           \* source-relative paths of the files copy2 has written
  log,            \* records emitted through logger
  classified,     \* history: every should_skip_file decision taken
  loaded,         \* history: directories load_gitignore_patterns was called for
  handled,        \* history: entries the for loop of backup_directory has taken
  faults          \* history: number of I/O failures the file system has produced

vars ==
  << fs, dry_run, source_exists, pc, exit_status, raised, stack, stats, dest,
     log, classified, loaded, handled, faults >>

\* level > 10 in backup_directory
MaxLevel == 10

Root == <<>>

Children(directory) ==
  { e \in fs : Len(e.path) = Len(directory) + 1 /\ PathParent(e.path) = directory }

LogRecord(level, what, path) == [level |-> level, what |-> what, path |-> path]

Top == stack[Len(stack)]

Pop == SubSeq(stack, 1, Len(stack) - 1)

Frame(src_dir, level) ==
  [src |-> src_dir, level |-> level, at |-> "enter", pats |-> {}, todo |-> {}]

(***************************************************************************)
(* load_gitignore_patterns.  nread is the number of lines the iteration    *)
(* over the file yields: all of them, or fewer when reading raises.        *)
(***************************************************************************)
GitignoreFiles(directory) ==
  { e \in Children(directory) : PathName(e.path) = <<".","g","i","t","i","g","n","o","r","e">> /\ e.target # "none" }

\* gitignore_file.exists()
GitignoreExists(directory) == GitignoreFiles(directory) # {}

GitignoreLines(directory) ==
  IF GitignoreExists(directory)
  THEN (CHOOSE e \in GitignoreFiles(directory) : TRUE).lines
  ELSE <<>>

\* open() of a .gitignore that resolves to a directory always raises
GitignoreOpens(directory) ==
  \A e \in GitignoreFiles(directory) : e.target = "file"

\* variant: the patterns of the parent directory's .gitignore are merged in
load_gitignore_patterns_inherited(directory, nread) ==
  LET lines == GitignoreLines(directory)
      parent == IF directory = Root THEN <<>> ELSE GitignoreLines(PathParent(directory))
      all == [i \in 1..(nread + Len(parent)) |->
                IF i <= nread THEN lines[i] ELSE parent[i - nread]]
  IN  { Strip(all[i]) : i \in { k \in 1..Len(all) :
          /\ Strip(all[k]) # <<>>
          /\ Head(Strip(all[k])) # "#" } }

load_gitignore_patterns(directory, nread) ==
  LET lines == GitignoreLines(directory)
  IN  { Strip(lines[i]) : i \in { k \in 1..nread :
          /\ Strip(lines[k]) # <<>>
          /\ Head(Strip(lines[k])) # "#" } }

\* the outcomes of reading directory's .gitignore: [ok, nread]
ReadOutcomes(directory) ==
  LET n == Len(GitignoreLines(directory))
  IN  IF ~GitignoreExists(directory) THEN { [ok |-> TRUE, nread |-> 0] }
      ELSE IF ~GitignoreOpens(directory) THEN { [ok |-> FALSE, nread |-> 0] }
      ELSE { [ok |-> FALSE, nread |-> k] : k \in 0..(IF n = 0 THEN 0 ELSE n - 1) }
           \cup { [ok |-> TRUE, nread |-> n] }

\* a read failure of a .gitignore that can be opened is an I/O failure
ReadFaults(directory, read) ==
  IF ~read.ok /\ GitignoreOpens(directory) THEN 1 ELSE 0

(***************************************************************************)
(* copy_file_safely.  outcome is what the file system does: "ok", "failed" *)
(* (mkdir or copy2 raises) or "stat_failed" (src.stat() raises after the   *)
(* copy was made and counted).                                             *)
(***************************************************************************)
\* variant: a failed copy is logged but not counted
copy_file_safely_uncounted(item, outcome) ==
  IF outcome = "ok"
  THEN /\ dest' = dest \cup {item.path}
       /\ stats' = [stats EXCEPT !.copied = @ + 1, !.size_copied = @ + item.size]
       /\ log' = log
  ELSE IF outcome = "stat_failed"
  THEN /\ dest' = dest \cup {item.path}
       /\ stats' = [stats EXCEPT !.copied = @ + 1]
       /\ log' = log \cup {LogRecord("ERROR", "Failed to copy", item.path)}
  ELSE /\ dest' = dest
       /\ stats' = stats
       /\ log' = log \cup {LogRecord("ERROR", "Failed to copy", item.path)}

copy_file_safely(item, outcome) ==
  IF outcome = "ok"
  THEN /\ dest' = dest \cup {item.path}
       /\ stats' = [stats EXCEPT !.copied = @ + 1, !.size_copied = @ + item.size]
       /\ log' = log
  ELSE IF outcome = "stat_failed"
  THEN /\ dest' = dest \cup {item.path}
       /\ stats' = [stats EXCEPT !.copied = @ + 1, !.errors = @ + 1]
       /\ log' = log \cup {LogRecord("ERROR", "Failed to copy", item.path)}
  ELSE /\ dest' = dest
       /\ stats' = [stats EXCEPT !.errors = @ + 1]
       /\ log' = log \cup {LogRecord("ERROR", "Failed to copy", item.path)}

CopyOutcomes == {"ok", "failed", "stat_failed"}

(***************************************************************************)
(* Initial state: MigrationPrep.__init__ for a tree and arguments.         *)
(***************************************************************************)
Init ==
  /\ fs \in Trees
  /\ dry_run \in BOOLEAN
  /\ source_exists \in BOOLEAN
  /\ pc = "start"
  /\ exit_status = -1
  /\ raised = "none"
  /\ stack = <<>>
  /\ stats = [copied |-> 0, skipped |-> 0, errors |-> 0, size_copied |-> 0]
  /\ dest = {}
  /\ log = {}
  /\ classified = {}
  /\ loaded = {}
  /\ handled = {}
  /\ faults = 0

(***************************************************************************)
(* main up to the call of backup_directory: a dry run returns 0; a missing *)
(* source raises ValueError and a failing mkdir raises OSError, both       *)
(* caught by "except Exception" (return 1).                                *)
(***************************************************************************)
Main ==
  /\ pc = "start"
  /\ \/ /\ dry_run
        /\ pc' = "done" /\ exit_status' = 0
        /\ UNCHANGED << raised, stack, log >>
     \/ /\ ~dry_run /\ ~source_exists
        /\ pc' = "done" /\ exit_status' = 1 /\ raised' = "ValueError"
        /\ log' = log \cup {LogRecord("ERROR", "Backup failed", Root)}
        /\ UNCHANGED stack
     \/ /\ ~dry_run /\ source_exists
        /\ \/ /\ pc' = "done" /\ exit_status' = 1 /\ raised' = "OSError"
              /\ log' = log \cup {LogRecord("ERROR", "Backup failed", Root)}
              /\ UNCHANGED stack
           \/ /\ pc' = "running"
              /\ stack' = << Frame(Root, 0) >>
              /\ UNCHANGED << exit_status, raised, log >>
  /\ UNCHANGED << fs, dry_run, source_exists, stats, dest, classified, loaded, handled >>
  /\ UNCHANGED faults

(***************************************************************************)
(* backup_directory, from its call to the start of the for loop.  A        *)
(* .gitignore that cannot be opened or read is handled inside              *)
(* load_gitignore_patterns (warning only); any other exception before the  *)
(* loop (exists() or iterdir() raising) reaches the outer handler: "Error  *)
(* scanning directory", one error counted, the call returns.               *)
(***************************************************************************)
\* variant: the limit is reached one level early
level_exceeded_early(level) == level >= MaxLevel

level_exceeded(level) == level > MaxLevel

BackupDirectoryDepthLimit ==
  /\ pc = "running" /\ stack # <<>> /\ Top.at = "enter"
  /\ level_exceeded(Top.level)
  /\ log' = log \cup {LogRecord("WARNING", "Maximum recursion depth reached", Top.src)}
  /\ stack' = Pop
  /\ UNCHANGED << fs, dry_run, source_exists, pc, exit_status, raised, stats, dest,
                  classified, loaded, handled >>
  /\ UNCHANGED faults

BackupDirectoryEnter ==
  /\ pc = "running" /\ stack # <<>> /\ Top.at = "enter"
  /\ ~level_exceeded(Top.level)
  /\ loaded' = loaded \cup {Top.src}
  /\ \E read \in ReadOutcomes(Top.src), iterdir_ok \in BOOLEAN :
       LET cost == ReadFaults(Top.src, read) + (IF iterdir_ok THEN 0 ELSE 1)
           warn == IF read.ok THEN {}
                   ELSE {LogRecord("WARNING", "Could not read .gitignore", Top.src)}
       IN  /\ faults + cost <= MaxFaults
           /\ faults' = faults + cost
           /\ IF iterdir_ok
              THEN /\ stack' = [stack EXCEPT ![Len(stack)] =
                                  [@ EXCEPT !.at = "iter",
                                            !.pats = load_gitignore_patterns(Top.src, read.nread),
                                            !.todo = Children(Top.src)]]
                   /\ log' = log \cup warn
                   /\ stats' = stats
              ELSE /\ stack' = Pop
                   /\ log' = log \cup warn
                               \cup {LogRecord("ERROR", "Error scanning directory", Top.src)}
                   /\ stats' = [stats EXCEPT !.errors = @ + 1]
  /\ UNCHANGED << fs, dry_run, source_exists, pc, exit_status, raised, dest,
                  classified, handled >>

(***************************************************************************)
(* One iteration of the for loop of backup_directory.                      *)
(***************************************************************************)
\* the loop goes on with the entries not yet taken
NextItem(item) ==
  stack' = [stack EXCEPT ![Len(stack)].todo = @ \ {item}]

\* variant: the handlers enclose the whole for loop, so an error ends the loop
entry_except_abort(item, exc) ==
  /\ log' = log \cup {LogRecord(IF exc = "PermissionError" THEN "WARNING" ELSE "ERROR",
                                IF exc = "PermissionError" THEN "Permission denied"
                                                           ELSE "Error processing",
                                item.path)}
  /\ stats' = [stats EXCEPT !.errors = @ + 1]
  /\ stack' = Pop

\* except PermissionError / except Exception around one iteration
entry_except(item, exc) ==
  /\ log' = log \cup {LogRecord(IF exc = "PermissionError" THEN "WARNING" ELSE "ERROR",
                                IF exc = "PermissionError" THEN "Permission denied"
                                                           ELSE "Error processing",
                                item.path)}
  /\ stats' = [stats EXCEPT !.errors = @ + 1]
  /\ NextItem(item)

\* is_symlink / exists / is_file / is_dir raises for the entry
ProcessItemError ==
  /\ pc = "running" /\ stack # <<>> /\ Top.at = "iter"
  /\ faults < MaxFaults
  /\ faults' = faults + 1
  /\ \E item \in Top.todo, exc \in {"PermissionError", "Exception"} :
       /\ entry_except(item, exc)
       /\ handled' = handled \cup {item.path}
  /\ UNCHANGED << fs, dry_run, source_exists, pc, exit_status, raised, dest,
                  classified, loaded >>

\* a regular file, or a symbolic link that resolves to a file
ProcessFile ==
  /\ pc = "running" /\ stack # <<>> /\ Top.at = "iter"
  /\ \E item \in Top.todo :
       /\ item.target = "file"
       /\ LET skip == should_skip_file(item.path, Top.pats)
          IN  /\ classified' = classified \cup
                    {[path |-> item.path, skip |-> skip, pats |-> Top.pats]}
              /\ IF ~skip
                 THEN \E outcome \in CopyOutcomes :
                        /\ outcome # "ok" => faults < MaxFaults
                        /\ faults' = faults + (IF outcome = "ok" THEN 0 ELSE 1)
                        /\ copy_file_safely(item, outcome)
                 ELSE /\ stats' = [stats EXCEPT !.skipped = @ + 1]
                      /\ UNCHANGED << dest, log, faults >>
       /\ handled' = handled \cup {item.path}
       /\ NextItem(item)
  /\ UNCHANGED << fs, dry_run, source_exists, pc, exit_status, raised, loaded >>

\* a symbolic link that is dangling or resolves to a directory: continue
ProcessSymlink ==
  /\ pc = "running" /\ stack # <<>> /\ Top.at = "iter"
  /\ \E item \in Top.todo :
       /\ item.kind = "link" /\ item.target # "file"
       /\ handled' = handled \cup {item.path}
       /\ NextItem(item)
  /\ UNCHANGED << fs, dry_run, source_exists, pc, exit_status, raised, stats, dest,
                  log, classified, loaded >>
  /\ UNCHANGED faults

\* a directory that is skipped
ProcessDirectorySkip ==
  /\ pc = "running" /\ stack # <<>> /\ Top.at = "iter"
  /\ \E item \in Top.todo :
       /\ item.kind = "dir"
       /\ should_skip_directory(item.path)
       /\ log' = log \cup {LogRecord("INFO", "Skipping directory", item.path)}
       /\ stats' = [stats EXCEPT !.skipped = @ + 1]
       /\ handled' = handled \cup {item.path}
       /\ NextItem(item)
  /\ UNCHANGED << fs, dry_run, source_exists, pc, exit_status, raised, dest,
                  classified, loaded >>
  /\ UNCHANGED faults

\* a directory that is kept: the recursive call
ProcessDirectoryDescend ==
  /\ pc = "running" /\ stack # <<>> /\ Top.at = "iter"
  /\ \E item \in Top.todo :
       /\ item.kind = "dir"
       /\ ~should_skip_directory(item.path)
       /\ handled' = handled \cup {item.path}
       /\ stack' = Append([stack EXCEPT ![Len(stack)].todo = @ \ {item}],
                          Frame(item.path, Top.level + 1))
  /\ UNCHANGED << fs, dry_run, source_exists, pc, exit_status, raised, stats, dest,
                  log, classified, loaded >>
  /\ UNCHANGED faults

\* the for loop is exhausted: backup_directory returns
BackupDirectoryReturn ==
  /\ pc = "running" /\ stack # <<>> /\ Top.at = "iter"
  /\ Top.todo = {}
  /\ stack' = Pop
  /\ UNCHANGED << fs, dry_run, source_exists, pc, exit_status, raised, stats, dest,
                  log, classified, loaded, handled >>
  /\ UNCHANGED faults

(***************************************************************************)
(* run_backup after the traversal (create_backup_info never raises: it     *)
(* logs a failed write), and main's return 0.                              *)
(***************************************************************************)
RunBackupFinish ==
  /\ pc = "running" /\ stack = <<>>
  /\ pc' = "done" /\ exit_status' = 0
  /\ \E info_written \in BOOLEAN :
       log' = log \cup (IF info_written THEN {}
                        ELSE {LogRecord("ERROR", "Could not create backup info file", Root)})
  /\ UNCHANGED << fs, dry_run, source_exists, raised, stack, stats, dest,
                  classified, loaded, handled >>
  /\ UNCHANGED faults

(***************************************************************************)
(* KeyboardInterrupt during run_backup: not an Exception, so no handler of *)
(* backup_directory catches it; main logs it and falls through to return 0.*)
(***************************************************************************)
Interrupt ==
  /\ pc = "running"
  /\ pc' = "done" /\ exit_status' = 0 /\ raised' = "KeyboardInterrupt"
  /\ stack' = <<>>
  /\ log' = log \cup {LogRecord("INFO", "Backup interrupted by user", Root)}
  /\ UNCHANGED << fs, dry_run, source_exists, stats, dest, classified, loaded, handled >>
  /\ UNCHANGED faults

Next ==
  \/ Main
  \/ BackupDirectoryDepthLimit
  \/ BackupDirectoryEnter
  \/ ProcessItemError
  \/ ProcessFile
  \/ ProcessSymlink
  \/ ProcessDirectorySkip
  \/ ProcessDirectoryDescend
  \/ BackupDirectoryReturn
  \/ RunBackupFinish
  \/ Interrupt

Spec == Init /\ [][Next]_vars

(***************************************************************************)
(* Vocabulary of the properties.                                           *)
(***************************************************************************)
LogHas(what, path) == \E r \in log : r.what = what /\ r.path = path

\* run_backup returned normally
Completed == pc = "done" /\ ~dry_run /\ raised = "none"

\* path lies strictly beneath directory
IsUnder(directory, path) ==
  Len(path) > Len(directory) /\ SubSeq(path, 1, Len(directory)) = directory

MatchesKeepPattern(name) == \E p \in keep_patterns : fnmatch(name, p)

MatchesSkipPattern(name) == \E p \in skip_patterns : fnmatch(name, p)

MatchesKeepDotfile(path) ==
  \E k \in keep_dotfiles : StartsWith(relative_path(path), k) \/ PathName(path) = k

\* the non-comment, non-blank lines of directory's own .gitignore, stripped
OwnPatterns(directory) ==
  LET own == { e \in fs : e.path = directory \o << <<".","g","i","t","i","g","n","o","r","e">> >> /\ e.target = "file" }
      stripped == UNION { { Strip(e.lines[i]) : i \in 1..Len(e.lines) } : e \in own }
  IN  { s \in stripped : s # <<>> /\ Head(s) # "#" }

\* every pattern of every .gitignore of the tree
TreePatterns == UNION { OwnPatterns(PathParent(e.path)) : e \in fs }

ErrorMessages ==
  { "Error scanning directory", "Permission denied", "Error processing", "Failed to copy" }

\* the counters count exactly the recorded decisions
StatsAccounted ==
  /\ stats.skipped = Cardinality({ c \in classified : c.skip })
                     + Cardinality({ r \in log : r.what = "Skipping directory" })
  /\ stats.errors = Cardinality({ r \in log : r.what \in ErrorMessages })
  /\ stats.copied = Cardinality(dest)
  /\ stats.size_copied <= FileSize * Cardinality(dest)

\* no entry beneath directory was taken, classified, copied, logged or loaded
Untouched(directory) ==
  /\ directory \notin loaded
  /\ \A p \in handled \cup dest \cup loaded : ~IsUnder(directory, p)
  /\ \A c \in classified : ~IsUnder(directory, c.path)
  /\ \A r \in log : ~IsUnder(directory, r.path)
  /\ \A i \in 1..Len(stack) : stack[i].src # directory /\ ~IsUnder(directory, stack[i].src)

\* every ancestor is a real directory that is not skipped, within the depth limit
Visitable(path) ==
  /\ Len(path) - 1 <= 10
  /\ \A k \in 1..(Len(path) - 1) :
       /\ Dir(SubSeq(path, 1, k)) \in fs
       /\ ~should_skip_directory(SubSeq(path, 1, k))

(***************************************************************************)
(* C1 -- precedence law: a file whose bare name matches a keep-pattern is  *)
(* never skipped, whatever gitignore pattern set is active (also one with  *)
(* a pattern matching the name or the relative path) and also when the     *)
(* name matches a skip-pattern.                                            *)
(***************************************************************************)
C1_KeepPrecedence ==
  \A c \in classified :
    MatchesKeepPattern(PathName(c.path)) =>
      /\ ~c.skip
      /\ \A G \in SUBSET TreePatterns : ~should_skip_file(c.path, G)

C1_Witness ==
  /\ \E c \in classified :
       /\ MatchesKeepPattern(PathName(c.path)) /\ MatchesSkipPattern(PathName(c.path))
       /\ \E p \in c.pats : fnmatch(PathName(c.path), p)
       /\ c.path \in dest
  /\ \E c \in classified :
       /\ MatchesKeepPattern(PathName(c.path)) /\ MatchesSkipPattern(PathName(c.path))
       /\ \E p \in c.pats : fnmatch(relative_path(c.path), p)
       /\ Len(c.path) > 1
       /\ c.path \in dest

(***************************************************************************)
(* C2 -- pruning law, as stated: every directory whose name is in          *)
(* skip_dirs is skipped by should_skip_directory, and nothing beneath it   *)
(* is classified, copied, counted or loaded.  The code tests keep_dotfiles *)
(* first, so this fails for .mix (also a keep-dotfile) and for .ssh/build. *)
(***************************************************************************)
C2_PruningAsStated ==
  \A e \in fs :
    (e.kind = "dir" /\ PathName(e.path) \in skip_dirs) =>
      /\ e.path \in handled => should_skip_directory(e.path)
      /\ Untouched(e.path)

(***************************************************************************)
(* C2 amended -- every directory whose name is in skip_dirs and which      *)
(* matches no keep-dotfile entry (by name or by relative-path prefix) is   *)
(* skipped by should_skip_directory; nothing beneath it is ever taken,     *)
(* classified, copied, logged or loaded, and the counters count only       *)
(* recorded decisions, so nothing beneath it is counted.                   *)
(***************************************************************************)
C2_Pruning ==
  /\ \A e \in fs :
       (e.kind = "dir" /\ PathName(e.path) \in skip_dirs /\ ~MatchesKeepDotfile(e.path)) =>
         /\ should_skip_directory(e.path)
         /\ Untouched(e.path)
  /\ StatsAccounted

C2_Witness ==
  /\ Completed
  /\ LogHas("Skipping directory", << <<"n","o","d","e","_","m","o","d","u","l","e","s">> >>)
  /\ LogHas("Skipping directory", << <<"s","r","c">>, <<"b","u","i","l","d">> >>)
  /\ GitignoreExists(<< <<"n","o","d","e","_","m","o","d","u","l","e","s">> >>)
  /\ stats.skipped = 3

(***************************************************************************)
(* C3 -- gitignore scenario, as stated: with the line secrets.txt in the   *)
(* root .gitignore, secrets.txt in the root is skipped and not copied,     *)
(* while secrets.txt in a subdirectory is copied.  The code keeps the root *)
(* file: its name matches the keep-pattern *.txt.                          *)
(***************************************************************************)
C3_ScenarioAsStated ==
  (Completed /\ faults = 0 /\ <<"s","e","c","r","e","t","s",".","t","x","t">> \in OwnPatterns(Root)
     /\ File(<< <<"s","e","c","r","e","t","s",".","t","x","t">> >>) \in fs /\ File(<< <<"s","u","b">>, <<"s","e","c","r","e","t","s",".","t","x","t">> >>) \in fs) =>
    /\ << <<"s","e","c","r","e","t","s",".","t","x","t">> >> \notin dest
    /\ [path |-> << <<"s","e","c","r","e","t","s",".","t","x","t">> >>, skip |-> TRUE, pats |-> OwnPatterns(Root)] \in classified
    /\ << <<"s","u","b">>, <<"s","e","c","r","e","t","s",".","t","x","t">> >> \in dest

(***************************************************************************)
(* C3 amended -- with the lines secrets.txt and secrets.key in the root    *)
(* .gitignore, secrets.txt in the root is never skipped (keep-pattern      *)
(* *.txt overrides gitignore) and after a run without I/O failure it is    *)
(* copied, like sub/secrets.txt; secrets.key, which matches no             *)
(* keep-pattern, is skipped in the root and copied from sub/.              *)
(***************************************************************************)
C3_Scenario ==
  (<<"s","e","c","r","e","t","s",".","t","x","t">> \in OwnPatterns(Root) /\ <<"s","e","c","r","e","t","s",".","k","e","y">> \in OwnPatterns(Root)) =>
    /\ \A c \in classified : PathName(c.path) = <<"s","e","c","r","e","t","s",".","t","x","t">> => ~c.skip
    /\ (Completed /\ faults = 0) =>
         /\ \A e \in fs :
              (e.kind = "file" /\ PathName(e.path) = <<"s","e","c","r","e","t","s",".","t","x","t">> /\ Len(e.path) <= 2)
                => e.path \in dest
         /\ File(<< <<"s","e","c","r","e","t","s",".","k","e","y">> >>) \in fs =>
              /\ << <<"s","e","c","r","e","t","s",".","k","e","y">> >> \notin dest
              /\ [path |-> << <<"s","e","c","r","e","t","s",".","k","e","y">> >>, skip |-> TRUE, pats |-> OwnPatterns(Root)]
                   \in classified
         /\ \A e \in fs :
              (e.kind = "file" /\ PathName(e.path) = <<"s","e","c","r","e","t","s",".","k","e","y">> /\ Len(e.path) = 2
                 /\ OwnPatterns(PathParent(e.path)) = {}
                 /\ ~should_skip_directory(PathParent(e.path)))
                => e.path \in dest

C3_Witness ==
  /\ Completed /\ faults = 0
  /\ <<"s","e","c","r","e","t","s",".","t","x","t">> \in OwnPatterns(Root)
  /\ << <<"s","e","c","r","e","t","s",".","t","x","t">> >> \in dest
  /\ << <<"s","u","b">>, <<"s","e","c","r","e","t","s",".","t","x","t">> >> \in dest
  /\ << <<"s","e","c","r","e","t","s",".","k","e","y">> >> \notin dest
  /\ << <<"s","u","b">>, <<"s","e","c","r","e","t","s",".","k","e","y">> >> \in dest
  /\ stats.skipped = 1

(***************************************************************************)
(* C4 -- gitignore scoping: the pattern set used to classify the files of  *)
(* a directory comes from that directory's own .gitignore only (all of its *)
(* patterns when the file is read without error, none when there is no     *)
(* .gitignore), so a pattern of a/.gitignore never decides a file of a     *)
(* sibling b/ or of a child a/c/, in every traversal order.                *)
(***************************************************************************)
C4_GitignoreScope ==
  \A c \in classified :
    LET d == PathParent(c.path)
    IN  /\ c.pats \subseteq OwnPatterns(d)
        /\ ~LogHas("Could not read .gitignore", d) => c.pats = OwnPatterns(d)
        /\ c.skip = should_skip_file(c.path, c.pats)

C4_Witness ==
  /\ Completed /\ faults = 0
  /\ [path |-> << <<"a">>, <<"x",".","d","a","t">> >>, skip |-> TRUE, pats |-> OwnPatterns(<< <<"a">> >>)]
       \in classified
  /\ OwnPatterns(<< <<"a">> >>) = { <<"*",".","[","c","d","]","a","t">>, <<"b","/","x",".","b","i","n">> }
  /\ << <<"a">>, <<"c">>, <<"x",".","d","a","t">> >> \in dest
  /\ << <<"b">>, <<"x",".","d","a","t">> >> \in dest
  /\ << <<"b">>, <<"x",".","b","i","n">> >> \in dest

(***************************************************************************)
(* C5 -- keep-dotfile law: a directory whose relative path starts with a   *)
(* keep-dotfile entry, or whose name is one, is not skipped by             *)
(* should_skip_directory, even when its name is in skip_dirs or matches a  *)
(* skip-pattern, and when the loop takes it the traversal descends into    *)
(* it instead of counting it as skipped.                                   *)
(***************************************************************************)
C5_KeepDotfile ==
  \A e \in fs :
    (e.kind = "dir" /\ MatchesKeepDotfile(e.path)) =>
      /\ ~should_skip_directory(e.path)
      /\ ~LogHas("Skipping directory", e.path)
      /\ (e.path \in handled /\ ~LogHas("Permission denied", e.path)
            /\ ~LogHas("Error processing", e.path)) =>
           \/ e.path \in loaded
           \/ LogHas("Maximum recursion depth reached", e.path)
           \/ (stack # <<>> /\ Top.src = e.path /\ Top.at = "enter")
           \/ raised = "KeyboardInterrupt"

C5_Witness ==
  /\ Completed
  /\ << <<".","m","i","x">> >> \in loaded /\ <<".","m","i","x">> \in skip_dirs
  /\ << <<".","s","s","h">>, <<"b","u","i","l","d">> >> \in loaded
  /\ << <<".","s","s","h">>, <<"c","o","r","e">> >> \in loaded /\ MatchesSkipPattern(<<"c","o","r","e">>)
  /\ << <<".","m","i","x">>, <<"m","i","x",".","e","x","s">> >> \in dest
  /\ << <<".","s","s","h">>, <<"b","u","i","l","d">>, <<"i","d","_","r","s","a">> >> \in dest
  /\ LogHas("Skipping directory", << <<".","g","i","t">> >>)

(***************************************************************************)
(* C6 -- keep-patterns at run level, as stated: after a completed run      *)
(* without I/O failure every regular file whose name matches a             *)
(* keep-pattern has been copied, wherever it lies.  The code never opens a *)
(* skipped directory: node_modules/README.md is not copied.                *)
(***************************************************************************)
C6_KeepEverywhereAsStated ==
  (Completed /\ faults = 0) =>
    \A e \in fs :
      (e.kind = "file" /\ MatchesKeepPattern(PathName(e.path))) => e.path \in dest

(***************************************************************************)
(* C6 amended -- after a completed run without I/O failure every regular   *)
(* file whose name matches a keep-pattern and whose directory the          *)
(* traversal visits (every ancestor is a directory that                    *)
(* should_skip_directory keeps, and the directory is at most 10 levels     *)
(* below the root) has been copied to the corresponding destination path.  *)
(***************************************************************************)
C6_KeepWhereVisited ==
  (Completed /\ faults = 0) =>
    \A e \in fs :
      (e.kind = "file" /\ MatchesKeepPattern(PathName(e.path)) /\ Visitable(e.path))
        => e.path \in dest

C6_Witness ==
  /\ Completed /\ faults = 0
  /\ << <<"d","o","c","s">>, <<"R","E","A","D","M","E",".","t","m","p">> >> \in dest
  /\ << <<"c","o","n","f","i","g",".","l","o","g">> >> \in dest
  /\ MatchesSkipPattern(<<"R","E","A","D","M","E",".","t","m","p">>)
  /\ <<"c","o","n","f","i","g",".","*">> \in OwnPatterns(Root)

(***************************************************************************)
(* C7 -- depth boundary: with the root at depth 0, a directory at depth 10 *)
(* that the traversal reaches is processed (entries classified, kept files *)
(* copied); backup_directory called for a directory at depth 11 only logs  *)
(* a warning, so nothing located at depth 11 or deeper is ever loaded,     *)
(* taken, classified, copied or counted.                                   *)
(***************************************************************************)
C7_DepthBoundary ==
  /\ \A d \in loaded : Len(d) <= 10
  /\ \A p \in handled \cup dest : Len(p) - 1 <= 10
  /\ \A c \in classified : Len(c.path) - 1 <= 10
  /\ \A r \in log : r.what = "Maximum recursion depth reached" =>
       (Len(r.path) = 11 /\ r.path \notin loaded)
  /\ StatsAccounted
  /\ (Completed /\ faults = 0) =>
       \A e \in fs :
         /\ (e.kind = "dir" /\ Len(e.path) = 10 /\ Visitable(e.path)
               /\ ~should_skip_directory(e.path)) =>
              /\ e.path \in loaded
              /\ \A f \in Children(e.path) :
                   /\ f.path \in handled
                   /\ f.target = "file" =>
                        /\ \E c \in classified : c.path = f.path
                        /\ ~should_skip_file(f.path, OwnPatterns(e.path)) => f.path \in dest
         /\ (e.kind = "dir" /\ Len(e.path) = 11 /\ Visitable(e.path)
               /\ ~should_skip_directory(e.path)) =>
              /\ LogHas("Maximum recursion depth reached", e.path)
              /\ Untouched(e.path)

C7_Witness ==
  /\ Completed /\ faults = 0
  /\ ChainPath(10) \o << <<"R","E","A","D","M","E">> >> \in dest
  /\ File(ChainPath(11) \o << <<"R","E","A","D","M","E">> >>) \in fs
  /\ ChainPath(11) \o << <<"R","E","A","D","M","E">> >> \notin dest
  /\ LogHas("Maximum recursion depth reached", ChainPath(11))
  /\ stats.copied = Cardinality({ e \in fs : e.kind = "file" /\ Len(e.path) <= 11 })
  /\ stats.skipped = 0

(***************************************************************************)
(* C8 -- exit status, as stated: main returns non-zero whenever run_backup *)
(* raises an unrecoverable error and whenever the run is interrupted, and  *)
(* zero only when the run completes.  The code returns 0 after             *)
(* KeyboardInterrupt.                                                      *)
(***************************************************************************)
C8_ExitStatus ==
  pc = "done" => (exit_status = 0 <=> raised = "none")

(***************************************************************************)
(* C9 -- error counting, as stated: an un-enumerable directory, an         *)
(* unreadable .gitignore, a permission error on an entry and a failed copy *)
(* each add one to stats["errors"], and an unreadable .gitignore or an     *)
(* un-enumerable directory ends the processing of that directory.  The     *)
(* code only logs a warning for an unreadable .gitignore and goes on.      *)
(***************************************************************************)
NewRecords(whats) == { r \in log' \ log : r.what \in whats }

C9_ErrorCountingAsStated ==
  [][ /\ stats'.errors = stats.errors
          + Cardinality(NewRecords(ErrorMessages \cup {"Could not read .gitignore"}))
      /\ NewRecords({"Error scanning directory", "Could not read .gitignore"}) # {}
           => stack' = Pop ]_vars

(***************************************************************************)
(* C9 amended -- an un-enumerable directory, a permission (or other) error *)
(* on an entry and a failed copy each add one to stats["errors"]; an       *)
(* un-enumerable directory ends the processing of that directory only; an  *)
(* unreadable .gitignore is logged as a warning, leaves stats["errors"]    *)
(* unchanged and does not end the processing of its directory, whose       *)
(* entries are classified with the patterns read before the failure.       *)
(***************************************************************************)
C9_ErrorCounting ==
  [][ /\ stats'.errors = stats.errors + Cardinality(NewRecords(ErrorMessages))
      /\ \A r \in NewRecords({"Error scanning directory"}) :
           r.path = Top.src /\ stack' = Pop
      /\ \A r \in NewRecords({"Permission denied", "Error processing", "Failed to copy"}) :
           /\ Len(stack') = Len(stack)
           /\ stack'[Len(stack)].todo = Top.todo \ { e \in fs : e.path = r.path }
      /\ (NewRecords({"Could not read .gitignore"}) # {}
            /\ NewRecords({"Error scanning directory"}) = {}) =>
           /\ Len(stack') = Len(stack)
           /\ stack'[Len(stack)].at = "iter"
           /\ stack'[Len(stack)].todo = Children(Top.src)
           /\ stack'[Len(stack)].pats \subseteq OwnPatterns(Top.src) ]_vars

C9_Witness ==
  /\ Completed
  /\ \E r \in log :
       /\ r.what = "Could not read .gitignore"
       /\ GitignoreOpens(r.path)
       /\ \E c \in classified : PathParent(c.path) = r.path /\ c.path \in dest
       /\ \A e \in Children(r.path) : e.path \in handled
  /\ stats.errors = 0
  /\ faults = 1

(***************************************************************************)
(* C10 -- best-effort traversal: a failure while processing one entry      *)
(* (permission denied, another error, a failed copy) is counted and the    *)
(* loop goes on with the remaining entries; when run_backup returns, every *)
(* entry of every enumerated directory has been taken, every file taken    *)
(* without error has been classified and, if kept, copied unless its copy  *)
(* failed, every kept directory has been entered, and no such failure      *)
(* makes run_backup raise.                                                 *)
(***************************************************************************)
EntryFailed(path) ==
  LogHas("Permission denied", path) \/ LogHas("Error processing", path)

C10_BestEffort ==
  /\ stats.errors > 0 => raised \in {"none", "KeyboardInterrupt"}
  /\ pc = "done" /\ stats.errors > 0 => exit_status = 0
  /\ \A i \in 1..Len(stack) :
       stack[i].at = "iter" =>
         \A e \in Children(stack[i].src) : e \in stack[i].todo \/ e.path \in handled
  /\ Completed =>
       \A d \in loaded :
         ~LogHas("Error scanning directory", d) =>
           \A e \in Children(d) :
             /\ e.path \in handled
             /\ (~EntryFailed(e.path) /\ e.target = "file") =>
                  \E c \in classified :
                    /\ c.path = e.path
                    /\ ~c.skip => (e.path \in dest \/ LogHas("Failed to copy", e.path))
             /\ (~EntryFailed(e.path) /\ e.kind = "dir") =>
                  \/ LogHas("Skipping directory", e.path)
                  \/ e.path \in loaded
                  \/ LogHas("Maximum recursion depth reached", e.path)

C10_Witness ==
  /\ Completed
  /\ stats.errors = 1
  /\ \E r \in log :
       /\ r.what \in {"Permission denied", "Failed to copy"}
       /\ \E p \in dest : PathParent(p) = PathParent(r.path)
       /\ \E c \in classified : c.skip /\ PathParent(c.path) = PathParent(r.path)
       /\ Cardinality(Children(PathParent(r.path))) >= 4
       /\ \A e \in Children(PathParent(r.path)) : e.path \in handled
       /\ \A e \in fs : e.kind = "dir" => e.path \in loaded

=============================================================================
